---- MODULE Spec2Model ----
(***************************************************************************)
(* Model of the Minesweeper board engine of src/src/game.rs: the Game      *)
(* struct (h, w, cells, state), its queries and its mutators open and      *)
(* flag, with the u8 coordinate arithmetic of the source; and of the       *)
(* application state machine of src/src/lib.rs that drives the board.      *)
(***************************************************************************)
EXTENDS Integers, Sequences, FiniteSets, TLC

\* ------------------------------------------------------------------ bounds
\* Largest side of the boards whose mine layouts are enumerated in full.
MaxSide == 3
\* Largest number of cells of those boards.
MaxCells == 4
\* Largest number of mines of the boards of the adjacency specification.
MaxMines == 1

\* ------------------------------------------------------- program constants
\* u8: the type of h, w, x and y; arithmetic on it is modulo 2^8.
U8 == 256

VARIABLES h, w, cells, state, build, panicked, call, ret, app

vars == <<h, w, cells, state, build, panicked, call, ret, app>>

\* --------------------------------------------------------------- values
None == <<"None">>
Some(v) == <<"Some", v>>
Unit == <<"Unit">>
Panic == <<"Panic">>

CellState == {"Uncovered", "Covered", "Flagged"}
GameState == {"Won", "Continue", "Lost"}
GameCell == [state : CellState, mine : BOOLEAN]

\* The application states of lib.rs (its own GameState enum), and NoApp, the
\* value of app when the board is driven directly through the Game API.
AppState == {"Menu", "Playing", "Over", "Restart"}
NoApp == "NoApp"

\* Overflow checks are on in a debug build (an overflowing u8 operation
\* panics) and off in a release build (it wraps modulo 2^8).
Builds == {"debug", "release"}

\* Dimensions whose product h * w does not fit in a u8.
WideDims == {<<16, 16>>, <<129, 2>>, <<255, 255>>}

SmallDims == {d \in (0..MaxSide) \X (0..MaxSide) : d[1] * d[2] <= MaxCells}

Dims == SmallDims \cup WideDims

\* Coordinates the callers pass along an axis of length n: the in-range
\* coordinates below MaxSide, and n itself, the first one out of range
\* (255, the largest u8, on an axis of length 255).
Coords(n) == (0..((IF n < MaxSide THEN n ELSE MaxSide) - 1)) \cup {n}

\* GameCell::new: a covered cell, mined or not by a random draw.
GameCell_new == {[state |-> "Covered", mine |-> m] : m \in BOOLEAN}

\* --------------------------------------------------------------- helpers
\* y * self.w + x in u8: the value in a release build, and whether the
\* computation overflows (a panic in a debug build).
CellIdx(x, y) == (y * w + x) % U8
IdxOverflow(x, y) == y * w + x >= U8

\* The bounds test of Game::cell.
cell_in_range(x, y) == ~(x >= w \/ y >= h)

\* Game::cell on the cell sequence cs: Panic, None, or Some(i) with i the
\* 1-based position of the cell in cs (self.cells.get(idx)).
cell_of(cs, x, y) ==
    IF cell_in_range(x, y)
    THEN IF build = "debug" /\ IdxOverflow(x, y)
         THEN Panic
         ELSE IF CellIdx(x, y) < Len(cs)
              THEN Some(CellIdx(x, y) + 1)
              ELSE None
    ELSE None

\* Game::cell on the current board.
cell(x, y) == cell_of(cells, x, y)

\* The bounds test of Game::cell_mut with > written for >=.
cell_mut_in_range_off_by_one(x, y) == ~(x > w \/ y > h)

\* The bounds test of Game::cell_mut.
cell_mut_in_range(x, y) == ~(x >= w \/ y >= h)

\* Game::cell_mut on the cell sequence cs: as Game::cell, with
\* self.cells.get_mut(idx).
cell_mut_of(cs, x, y) ==
    IF cell_mut_in_range(x, y)
    THEN IF build = "debug" /\ IdxOverflow(x, y)
         THEN Panic
         ELSE IF CellIdx(x, y) < Len(cs)
              THEN Some(CellIdx(x, y) + 1)
              ELSE None
    ELSE None

\* Game::cell_mut on the current board.
cell_mut(x, y) == cell_mut_of(cells, x, y)

\* Game::adj with x + 1 <= self.w written for x + 1 < self.w.
adj_off_by_one(x, y) ==
    LET xm == IF x >= 1 THEN <<x - 1>> ELSE <<>>
        xp == IF (x + 1) % U8 <= w THEN <<(x + 1) % U8>> ELSE <<>>
        row(yy) == [i \in 1..Len(xm) |-> <<xm[i], yy>>]
                   \o <<<<x, yy>>>>
                   \o [i \in 1..Len(xp) |-> <<xp[i], yy>>]
        up == IF y >= 1 THEN row(y - 1) ELSE <<>>
        mid == [i \in 1..Len(xm) |-> <<xm[i], y>>]
               \o [i \in 1..Len(xp) |-> <<xp[i], y>>]
        down == IF (y + 1) % U8 < h THEN row((y + 1) % U8) ELSE <<>>
    IN up \o mid \o down

\* Game::adj: the neighbours of (x, y) in the order the source pushes them.
\* checked_sub(1) is None at 0; x + 1 and y + 1 are u8 additions.
adj(x, y) ==
    LET xm == IF x >= 1 THEN <<x - 1>> ELSE <<>>
        xp == IF (x + 1) % U8 < w THEN <<(x + 1) % U8>> ELSE <<>>
        row(yy) == [i \in 1..Len(xm) |-> <<xm[i], yy>>]
                   \o <<<<x, yy>>>>
                   \o [i \in 1..Len(xp) |-> <<xp[i], yy>>]
        up == IF y >= 1 THEN row(y - 1) ELSE <<>>
        mid == [i \in 1..Len(xm) |-> <<xm[i], y>>]
               \o [i \in 1..Len(xp) |-> <<xp[i], y>>]
        down == IF (y + 1) % U8 < h THEN row((y + 1) % U8) ELSE <<>>
    IN up \o mid \o down

\* x + 1 or y + 1 overflows in Game::adj.
adj_overflow(x, y) == x + 1 >= U8 \/ y + 1 >= U8

\* self.cells[(y * self.w + x) as usize]: the position read, and whether
\* the read panics (u8 overflow in a debug build, or index out of bounds).
At(x, y) == CellIdx(x, y) + 1
IdxPanics(cs, x, y) ==
    \/ build = "debug" /\ IdxOverflow(x, y)
    \/ CellIdx(x, y) >= Len(cs)

\* Number of entries of the coordinate list a whose cell is a mine.
RECURSIVE count_mines(_, _)
count_mines(cs, a) ==
    IF a = <<>> THEN 0
    ELSE (IF cs[At(Head(a)[1], Head(a)[2])].mine THEN 1 ELSE 0)
         + count_mines(cs, Tail(a))

\* Some read of a cell of the coordinate list a panics.
adj_reads_panic(cs, a) ==
    \E k \in 1..Len(a) : IdxPanics(cs, a[k][1], a[k][2])

\* The cascade test of Game::visit with is_some() written for is_none().
no_adjacent_mine_inverted(cs, a) ==
    \E k \in 1..Len(a) : cs[At(a[k][1], a[k][2])].mine

\* adj.iter().find(|(x, y)| cells[..].mine).is_none()
no_adjacent_mine(cs, a) ==
    ~ \E k \in 1..Len(a) : cs[At(a[k][1], a[k][2])].mine

\* The filter of Game::visit keeping Covered neighbours only, so that the
\* cascade stops at a Flagged cell.
to_visit_skips_flagged(cs, a) ==
    SelectSeq(a, LAMBDA p : cs[At(p[1], p[2])].state = "Covered")

\* The neighbours Game::visit recurses into.
to_visit(cs, a) ==
    SelectSeq(a, LAMBDA p : cs[At(p[1], p[2])].state # "Uncovered")

\* The visited test of Game::visit never finding a cell marked.
already_visited_never(visited, i) == FALSE

\* if visited[cell_idx] { return; } in Game::visit.
already_visited(visited, i) == visited[i]

\* vec![false; self.cells.len()]: the visited markers Game::open starts with.
fresh_visited(n) == [i \in 1..n |-> FALSE]

\* Game::visit, and its loop over to_visit. The result is the cell
\* sequence, the visited markers, whether the call panicked, and steps, the
\* number of times a cell was processed (marked and set Uncovered).
RECURSIVE visit(_, _, _, _), visit_all(_, _, _)
visit(cs, visited, x, y) ==
    IF IdxPanics(cs, x, y)
    THEN [cells |-> cs, visited |-> visited, panic |-> TRUE, steps |-> 0]
    ELSE IF already_visited(visited, At(x, y))
    THEN [cells |-> cs, visited |-> visited, panic |-> FALSE, steps |-> 0]
    ELSE LET a == adj(x, y) IN
         IF (build = "debug" /\ adj_overflow(x, y)) \/ adj_reads_panic(cs, a)
         THEN [cells |-> cs, visited |-> visited, panic |-> TRUE, steps |-> 0]
         ELSE LET cs1 == [cs EXCEPT ![At(x, y)].state = "Uncovered"]
                  v1 == [visited EXCEPT ![At(x, y)] = TRUE]
              IN IF no_adjacent_mine(cs1, a)
                 THEN LET r == visit_all(cs1, v1, to_visit(cs1, a))
                      IN [r EXCEPT !.steps = @ + 1]
                 ELSE [cells |-> cs1, visited |-> v1, panic |-> FALSE,
                       steps |-> 1]

visit_all(cs, visited, todo) ==
    IF todo = <<>>
    THEN [cells |-> cs, visited |-> visited, panic |-> FALSE, steps |-> 0]
    ELSE LET r == visit(cs, visited, Head(todo)[1], Head(todo)[2])
         IN IF r.panic THEN r
            ELSE LET q == visit_all(r.cells, r.visited, Tail(todo))
                 IN [q EXCEPT !.steps = @ + r.steps]

\* The mine test of Game::open negated.
open_hits_mine_negated(c) == ~c.mine

\* if cell.mine { ... Lost } in Game::open.
open_hits_mine(c) == c.mine

\* The win check of Game::open with is_some() written for is_none().
win_check_negated(cs) ==
    \E i \in 1..Len(cs) : cs[i].state = "Covered" /\ ~cs[i].mine

\* The win check of Game::open: no cell is Covered and not a mine.
win_check(cs) ==
    ~ \E i \in 1..Len(cs) : cs[i].state = "Covered" /\ ~cs[i].mine

\* Game::open running the win check also when the coordinates name no cell.
open_checks_win_on_miss(x, y) ==
    LET c == cell(x, y) IN
    IF c = Panic
    THEN [cells |-> cells, state |-> state, panic |-> TRUE]
    ELSE IF c = None
    THEN [cells |-> cells,
          state |-> IF win_check(cells) THEN "Won" ELSE state,
          panic |-> FALSE]
    ELSE IF open_hits_mine(cells[c[2]])
    THEN [cells |-> cells, state |-> "Lost", panic |-> FALSE]
    ELSE LET r == visit(cells, fresh_visited(Len(cells)), x, y)
         IN IF r.panic
            THEN [cells |-> cells, state |-> state, panic |-> TRUE]
            ELSE [cells |-> r.cells,
                  state |-> IF win_check(r.cells) THEN "Won" ELSE state,
                  panic |-> FALSE]

\* Game::open with the mine branch also uncovering the cell it hit.
open_reveals_mine(x, y) ==
    LET c == cell(x, y) IN
    IF c = Panic
    THEN [cells |-> cells, state |-> state, panic |-> TRUE]
    ELSE IF c = None
    THEN [cells |-> cells, state |-> state, panic |-> FALSE]
    ELSE IF open_hits_mine(cells[c[2]])
    THEN [cells |-> [cells EXCEPT ![c[2]].state = "Uncovered"],
          state |-> "Lost", panic |-> FALSE]
    ELSE LET r == visit(cells, fresh_visited(Len(cells)), x, y)
         IN IF r.panic
            THEN [cells |-> cells, state |-> state, panic |-> TRUE]
            ELSE [cells |-> r.cells,
                  state |-> IF win_check(r.cells) THEN "Won" ELSE state,
                  panic |-> FALSE]

\* Game::open on a board with cell sequence cs and game state st: the cell
\* sequence and the game state after the call, whether the call panicked,
\* and the visited markers and the number of cells processed by its
\* traversal (none when visit is not called).
open_in(cs, st, x, y) ==
    LET c == cell_of(cs, x, y)
        none == [visited |-> fresh_visited(0), steps |-> 0]
    IN
    IF c = Panic
    THEN [cells |-> cs, state |-> st, panic |-> TRUE] @@ none
    ELSE IF c = None
    THEN [cells |-> cs, state |-> st, panic |-> FALSE] @@ none
    ELSE IF open_hits_mine(cs[c[2]])
    THEN [cells |-> cs, state |-> "Lost", panic |-> FALSE] @@ none
    ELSE LET r == visit(cs, fresh_visited(Len(cs)), x, y)
         IN IF r.panic
            THEN [cells |-> cs, state |-> st, panic |-> TRUE,
                  visited |-> r.visited, steps |-> r.steps]
            ELSE [cells |-> r.cells,
                  state |-> IF win_check(r.cells) THEN "Won" ELSE st,
                  panic |-> FALSE,
                  visited |-> r.visited, steps |-> r.steps]

\* Game::open on the current board.
open(x, y) == open_in(cells, state, x, y)

\* The match of Game::flag with the Flagged arm leaving the cell Flagged.
flag_match_no_unflag(st) ==
    CASE st = "Covered" -> [state |-> "Flagged", ret |-> Some(TRUE)]
      [] st = "Flagged" -> [state |-> "Flagged", ret |-> Some(FALSE)]
      [] st = "Uncovered" -> [state |-> "Uncovered", ret |-> None]

\* The match of Game::flag with the Uncovered arm flagging the cell.
flag_match_flags_uncovered(st) ==
    CASE st = "Covered" -> [state |-> "Flagged", ret |-> Some(TRUE)]
      [] st = "Flagged" -> [state |-> "Covered", ret |-> Some(FALSE)]
      [] st = "Uncovered" -> [state |-> "Flagged", ret |-> Some(TRUE)]

\* The match of Game::flag with the Flagged arm uncovering the cell.
flag_match_unflag_uncovers(st) ==
    CASE st = "Covered" -> [state |-> "Flagged", ret |-> Some(TRUE)]
      [] st = "Flagged" -> [state |-> "Uncovered", ret |-> Some(FALSE)]
      [] st = "Uncovered" -> [state |-> "Uncovered", ret |-> None]

\* The match of Game::flag with the Uncovered arm covering the cell again.
flag_match_covers_uncovered(st) ==
    CASE st = "Covered" -> [state |-> "Flagged", ret |-> Some(TRUE)]
      [] st = "Flagged" -> [state |-> "Covered", ret |-> Some(FALSE)]
      [] st = "Uncovered" -> [state |-> "Covered", ret |-> None]

\* match cell.state { ... } in Game::flag: the new cell state and the
\* value returned.
flag_match(st) ==
    CASE st = "Covered" -> [state |-> "Flagged", ret |-> Some(TRUE)]
      [] st = "Flagged" -> [state |-> "Covered", ret |-> Some(FALSE)]
      [] st = "Uncovered" -> [state |-> "Uncovered", ret |-> None]

\* Game::flag writing a whole default cell (mine: false) with the new state.
flag_resets_cell(x, y) ==
    LET c == cell_mut(x, y) IN
    IF c = Panic THEN [cells |-> cells, ret |-> Panic]
    ELSE IF c = None THEN [cells |-> cells, ret |-> None]
    ELSE [cells |-> [cells EXCEPT ![c[2]] =
                        [state |-> flag_match(@.state).state, mine |-> FALSE]],
          ret |-> flag_match(cells[c[2]].state).ret]

\* Game::flag returning None at once when the game state is not Continue.
flag_in_stops_when_over(cs, st, x, y) ==
    LET c == cell_mut_of(cs, x, y) IN
    IF st # "Continue" THEN [cells |-> cs, ret |-> None]
    ELSE IF c = Panic THEN [cells |-> cs, ret |-> Panic]
    ELSE IF c = None THEN [cells |-> cs, ret |-> None]
    ELSE [cells |-> [cs EXCEPT ![c[2]].state = flag_match(@).state],
          ret |-> flag_match(cs[c[2]].state).ret]

\* Game::flag on a board with cell sequence cs and game state st: the cell
\* sequence after the call and the value returned. The body never reads
\* self.state and never assigns it.
flag_in(cs, st, x, y) ==
    LET c == cell_mut_of(cs, x, y) IN
    IF c = Panic THEN [cells |-> cs, ret |-> Panic]
    ELSE IF c = None THEN [cells |-> cs, ret |-> None]
    ELSE [cells |-> [cs EXCEPT ![c[2]].state = flag_match(@).state],
          ret |-> flag_match(cs[c[2]].state).ret]

\* Game::flag on the current board.
flag(x, y) == flag_in(cells, state, x, y)

\* Game::cell_state and Game::has_mine.
cell_state(x, y) ==
    LET c == cell(x, y) IN
    IF c = Panic \/ c = None THEN c ELSE Some(cells[c[2]].state)

has_mine(x, y) ==
    LET c == cell(x, y) IN
    IF c = Panic \/ c = None THEN c ELSE Some(cells[c[2]].mine)

\* Game::adjacent_mines.
adjacent_mines(x, y) ==
    LET c == cell(x, y) IN
    IF c = Panic \/ c = None THEN c
    ELSE IF (build = "debug" /\ adj_overflow(x, y))
            \/ adj_reads_panic(cells, adj(x, y))
         THEN Panic
         ELSE Some(count_mines(cells, adj(x, y)))

\* Game::width and Game::height.
width == w
height == h

\* Game::mines and Game::flagged.
mines == Cardinality({i \in 1..Len(cells) : cells[i].mine})
flagged == Cardinality({i \in 1..Len(cells) : cells[i].state = "Flagged"})

\* ------------------------------------------------------------ the machine
\* Game::new(w, h): h * w cells in u8 arithmetic, state Continue. In a debug
\* build an overflowing h * w panics and no board exists.
Init ==
    /\ w \in {d[1] : d \in Dims}
    /\ h \in {d[2] : d \in Dims}
    /\ <<w, h>> \in Dims
    /\ build \in Builds
    /\ panicked = (build = "debug" /\ h * w >= U8)
    /\ cells \in IF panicked THEN {<<>>}
                 ELSE [1..((h * w) % U8) -> GameCell_new]
    /\ state = "Continue"
    /\ call = <<"new", w, h>>
    /\ ret = IF panicked THEN Panic ELSE Unit
    /\ app = NoApp

Open(x, y) ==
    /\ ~panicked
    /\ LET r == open(x, y) IN
        /\ cells' = r.cells
        /\ state' = r.state
        /\ panicked' = r.panic
        /\ ret' = IF r.panic THEN Panic ELSE Unit
    /\ call' = <<"open", x, y>>
    /\ UNCHANGED <<h, w, build, app>>

Flag(x, y) ==
    /\ ~panicked
    /\ LET r == flag(x, y) IN
        /\ cells' = r.cells
        /\ ret' = r.ret
        /\ panicked' = (r.ret = Panic)
    /\ call' = <<"flag", x, y>>
    /\ UNCHANGED <<h, w, state, build, app>>

\* A query: the board is left alone, the call and its result are recorded.
Query(name, x, y, result) ==
    /\ ~panicked
    /\ call' = <<name, x, y>>
    /\ ret' = result
    /\ panicked' = (result = Panic)
    /\ UNCHANGED <<h, w, cells, state, build, app>>

CellStateCall(x, y) == Query("cell_state", x, y, cell_state(x, y))
HasMineCall(x, y) == Query("has_mine", x, y, has_mine(x, y))
AdjacentMinesCall(x, y) == Query("adjacent_mines", x, y, adjacent_mines(x, y))

\* The mutators, called in any order with any coordinates.
Next ==
    \/ \E x \in Coords(w), y \in Coords(h) : Open(x, y)
    \/ \E x \in Coords(w), y \in Coords(h) : Flag(x, y)

Spec == Init /\ [][Next]_vars

\* The mutators and the per-coordinate queries.
NextQuery ==
    \/ \E x \in Coords(w), y \in Coords(h) : Open(x, y)
    \/ \E x \in Coords(w), y \in Coords(h) : Flag(x, y)
    \/ \E x \in Coords(w), y \in Coords(h) : CellStateCall(x, y)
    \/ \E x \in Coords(w), y \in Coords(h) : HasMineCall(x, y)
    \/ \E x \in Coords(w), y \in Coords(h) : AdjacentMinesCall(x, y)

SpecQuery == Init /\ [][NextQuery]_vars

\* A value that is not an Option: the list Game::adj returns.
Val(v) == <<"Val", v>>

\* Boards for the adjacency functions: every small shape up to MaxSide by
\* MaxSide, and the wide ones, with at most MaxMines mines.
AdjDims == ((0..MaxSide) \X (0..MaxSide)) \cup WideDims

MineLayouts(n) ==
    {cs \in [1..n -> GameCell_new] :
        Cardinality({i \in 1..n : cs[i].mine}) <= MaxMines}

InitAdj ==
    /\ w \in {d[1] : d \in AdjDims}
    /\ h \in {d[2] : d \in AdjDims}
    /\ <<w, h>> \in AdjDims
    /\ build \in Builds
    /\ panicked = (build = "debug" /\ h * w >= U8)
    /\ cells \in IF panicked THEN {<<>>} ELSE MineLayouts((h * w) % U8)
    /\ state = "Continue"
    /\ call = <<"new", w, h>>
    /\ ret = IF panicked THEN Panic ELSE Unit
    /\ app = NoApp

\* Coordinates for Game::adj along an axis of length n: those of Coords and
\* the last one in range.
AdjCoords(n) == {c \in Coords(n) \cup {n - 1} : c >= 0 /\ c < n}

\* A call of Game::adj, which its callers make with in-range coordinates.
AdjCall(x, y) ==
    /\ ~panicked
    /\ cell_in_range(x, y)
    /\ call' = <<"adj", x, y>>
    /\ ret' = IF build = "debug" /\ adj_overflow(x, y) THEN Panic
              ELSE Val(adj(x, y))
    /\ panicked' = (build = "debug" /\ adj_overflow(x, y))
    /\ UNCHANGED <<h, w, cells, state, build, app>>

NextAdj ==
    \/ \E x \in AdjCoords(w), y \in AdjCoords(h) : AdjCall(x, y)
    \/ \E x \in Coords(w), y \in Coords(h) : AdjacentMinesCall(x, y)

SpecAdj == InitAdj /\ [][NextAdj]_vars

\* Boards with a side of length 0.
EmptyDims ==
    {d \in ((0..MaxSide) \X (0..MaxSide)) \cup {<<0, U8 - 1>>, <<U8 - 1, 0>>} :
        d[1] = 0 \/ d[2] = 0}

InitEmpty ==
    /\ w \in {d[1] : d \in EmptyDims}
    /\ h \in {d[2] : d \in EmptyDims}
    /\ <<w, h>> \in EmptyDims
    /\ build \in Builds
    /\ panicked = (build = "debug" /\ h * w >= U8)
    /\ cells \in IF panicked THEN {<<>>}
                 ELSE [1..((h * w) % U8) -> GameCell_new]
    /\ state = "Continue"
    /\ call = <<"new", w, h>>
    /\ ret = IF panicked THEN Panic ELSE Unit
    /\ app = NoApp

SpecEmpty == InitEmpty /\ [][NextQuery]_vars

\* ------------------------------------------------------ the application
\* The board sizes handle_menu builds for Easy, Medium and Hard.
Levels == {5, 10, 15}

\* The cells that may be free of a mine on a new board of width nw with n
\* cells: any cell of a board of at most MaxCells cells; on a larger board
\* the four cells of the 2 by 2 block at the origin, every other cell being
\* a mine.
SafeSpots(nw, n) == IF n <= MaxCells THEN 1..n ELSE {1, 2, nw + 1, nw + 2}

NewCells(nw, n) ==
    {[i \in 1..n |-> [state |-> "Covered", mine |-> i \notin S]] :
        S \in SUBSET SafeSpots(nw, n)}

\* The tiles the user clicks on a board: the first tile, its right
\* neighbour and the last tile, all of them tiles setup_board spawned.
Tiles == {t \in {<<0, 0>>, <<1, 0>>, <<w - 1, h - 1>>} :
            t[1] >= 0 /\ t[1] < w /\ t[2] >= 0 /\ t[2] < h}

Buttons == {"Left", "Right", "NoButton"}

\* commands.insert_resource(Game::new(nw, nh)) and state.set(Playing):
\* the new board replaces the current one.
InstallGame(nw, nh) ==
    /\ w' = nw
    /\ h' = nh
    /\ panicked' = (build = "debug" /\ nh * nw >= U8)
    /\ cells' \in IF panicked' THEN {<<>>} ELSE NewCells(nw, (nh * nw) % U8)
    /\ state' = "Continue"
    /\ call' = <<"new", nw, nh>>
    /\ ret' = IF panicked' THEN Panic ELSE Unit
    /\ app' = IF panicked' THEN app ELSE "Playing"
    /\ UNCHANGED build

\* handle_menu, when a difficulty button is clicked.
HandleMenu(n) ==
    /\ ~panicked
    /\ app = "Menu"
    /\ InstallGame(n, n)

\* handle_mouse_action run in the application states besides Playing too.
mouse_runs_in_over(a) == a \in {"Playing", "Over"}

\* handle_mouse_action belongs to the on_update(Playing) system set.
mouse_runs(a) == a = "Playing"

\* The reflection of handle_mouse_action leaving for Over in every state.
observes_over_always(st) == TRUE

\* The arms of match game.state() that call state.set(GameState::Over).
observes_over(st) == st \in {"Won", "Lost"}

\* game_over, run on entering Over: its match has no arm for Continue.
game_over(st) == IF st \in {"Won", "Lost"} THEN Unit ELSE Panic

\* The click part of handle_mouse_action: open on a left click, flag on a
\* right click, whose None result reaches unreachable!().
mouse_click(button, x, y) ==
    CASE button = "Left" ->
            LET o == open(x, y)
            IN [cells |-> o.cells, state |-> o.state,
                ret |-> IF o.panic THEN Panic ELSE Unit, panic |-> o.panic]
      [] button = "Right" ->
            LET f == flag(x, y)
            IN [cells |-> f.cells, state |-> state, ret |-> f.ret,
                panic |-> f.ret \in {Panic, None}]
      [] OTHER ->
            [cells |-> cells, state |-> state, ret |-> Unit, panic |-> FALSE]

\* handle_mouse_action with the cursor over tile (x, y), followed by
\* game_over when it leaves for Over.
HandleMouseAction(button, x, y) ==
    /\ ~panicked
    /\ mouse_runs(app)
    /\ LET r == mouse_click(button, x, y)
           over == ~r.panic /\ observes_over(r.state)
       IN /\ cells' = r.cells
          /\ state' = r.state
          /\ ret' = r.ret
          /\ app' = IF over THEN "Over" ELSE app
          /\ panicked' = (r.panic \/ (over /\ game_over(r.state) = Panic))
    /\ call' = <<CASE button = "Left" -> "open"
                   [] button = "Right" -> "flag"
                   [] OTHER -> "hover", x, y>>
    /\ UNCHANGED <<h, w, build>>

\* game.mines() - game.flagged() in usize: a panic in a debug build when it
\* underflows, the wrapped difference in a release build.
update_mines ==
    IF flagged > mines
    THEN IF build = "debug" THEN Panic ELSE <<"Wrapped", flagged - mines>>
    ELSE Val(mines - flagged)

UpdateMines ==
    /\ ~panicked
    /\ app = "Playing"
    /\ call' = <<"update_mines", 0, 0>>
    /\ ret' = update_mines
    /\ panicked' = (update_mines = Panic)
    /\ UNCHANGED <<h, w, cells, state, build, app>>

\* handle_restart and handle_back, systems of Playing and of Over, when
\* their button is clicked.
HandleRestart ==
    /\ ~panicked
    /\ app \in {"Playing", "Over"}
    /\ app' = "Restart"
    /\ call' = <<"handle_restart", 0, 0>>
    /\ ret' = Unit
    /\ UNCHANGED <<h, w, cells, state, build, panicked>>

HandleBack ==
    /\ ~panicked
    /\ app \in {"Playing", "Over"}
    /\ app' = "Menu"
    /\ call' = <<"handle_back", 0, 0>>
    /\ ret' = Unit
    /\ UNCHANGED <<h, w, cells, state, build, panicked>>

\* restart, run on entering Restart: Game::new(game.height(), game.width()).
Restart ==
    /\ ~panicked
    /\ app = "Restart"
    /\ InstallGame(height, width)

\* The application from its start in Menu, before any board exists (no
\* cells, sides 0).
InitApp ==
    /\ w = 0 /\ h = 0
    /\ build \in Builds
    /\ panicked = FALSE
    /\ cells = <<>>
    /\ state = "Continue"
    /\ call = <<"start", 0, 0>>
    /\ ret = Unit
    /\ app = "Menu"

NextApp ==
    \/ \E n \in Levels : HandleMenu(n)
    \/ \E b \in Buttons, t \in Tiles : HandleMouseAction(b, t[1], t[2])
    \/ UpdateMines
    \/ HandleRestart
    \/ HandleBack
    \/ Restart

SpecApp == InitApp /\ [][NextApp]_vars

\* restart applied to any current board: the boards of Init, whatever their
\* shape, with a restart asked for.
InitRestart ==
    /\ w \in {d[1] : d \in Dims}
    /\ h \in {d[2] : d \in Dims}
    /\ <<w, h>> \in Dims
    /\ build \in Builds
    /\ panicked = (build = "debug" /\ h * w >= U8)
    /\ cells \in IF panicked THEN {<<>>}
                 ELSE [1..((h * w) % U8) -> GameCell_new]
    /\ state = "Continue"
    /\ call = <<"new", w, h>>
    /\ ret = IF panicked THEN Panic ELSE Unit
    /\ app = "Restart"

NextRestart ==
    \/ Restart
    \/ HandleRestart

SpecRestart == InitRestart /\ [][NextRestart]_vars

TypeOK ==
    /\ cells \in Seq(GameCell)
    /\ state \in GameState
    /\ panicked \in BOOLEAN
    /\ app \in AppState \cup {NoApp}

\* ------------------------------------------------------------ properties
\* The coordinates of the call a step makes, and the row-major position of
\* cell (x, y) in the cell sequence.
CallX == call'[2]
CallY == call'[3]
Pos(x, y) == y * w + x + 1

\* Every cell that is not a mine is Uncovered.
AllSafeUncovered(cs) ==
    \A i \in 1..Len(cs) : ~cs[i].mine => cs[i].state = "Uncovered"

\* C1: overall_state changes only from Continue; once it is Won or Lost no
\* later open or flag call changes it.
C1_TerminalStateKept == [][state # "Continue" => state' = state]_vars

\* C2: an open call of a valid cell that is not a mine leaves overall_state
\* Won if and only if every cell that is not a mine is then Uncovered.
C2_WonIffAllSafeUncovered ==
    [][(/\ call'[1] = "open"
        /\ has_mine(CallX, CallY) = Some(FALSE)
        /\ ~panicked')
       => ((state' = "Won") <=> AllSafeUncovered(cells'))]_vars

\* C3: a step changes overall_state to Lost only if it is an open of a valid
\* cell that is a mine, and every such open leaves overall_state Lost.
C3_OpenMineStep ==
    /\ call'[1] = "open"
    /\ CallX < w /\ CallY < h
    /\ has_mine(CallX, CallY) = Some(TRUE)

C3_LostExactlyOnMineOpen ==
    [][/\ (state' = "Lost" /\ state # "Lost") => C3_OpenMineStep
       /\ C3_OpenMineStep => state' = "Lost"]_vars

C3_Witness ==
    /\ state = "Lost"
    /\ call[1] = "open"
    /\ has_mine(call[2], call[3]) = Some(TRUE)
    /\ \E i \in 1..Len(cells) : cells[i].state = "Uncovered"

\* C4: while overall_state is Continue, opening a cell that is already
\* Uncovered changes no cell and does not change overall_state.
C4_OpenUncoveredIdempotent ==
    [][(/\ state = "Continue"
        /\ call'[1] = "open"
        /\ cell_state(CallX, CallY) = Some("Uncovered"))
       => (cells' = cells /\ state' = state)]_vars

\* C5: no mine is ever Uncovered.
C5_NoMineUncovered ==
    \A i \in 1..Len(cells) : cells[i].mine => cells[i].state # "Uncovered"

\* An open of (0, 0) has cascaded onto a cell that borders a mine.
C5_Witness ==
    /\ call = <<"open", 0, 0>>
    /\ Len(cells) = 3
    /\ cells[1].state = "Uncovered"
    /\ cells[2].state = "Uncovered"
    /\ cells[3].mine /\ cells[3].state = "Flagged"

\* C6: cell_state, has_mine and adjacent_mines return None exactly for the
\* coordinates with x >= width or y >= height.
C6_NoneIffOutOfRange ==
    call[1] \in {"cell_state", "has_mine", "adjacent_mines"}
    => ((ret = None) <=> (call[2] >= w \/ call[3] >= h))

\* C7: a board built with width and height in 1..255 holds exactly
\* width * height cells, and open and flag keep that length.
C7_CellsLength ==
    (~panicked /\ w \in 1..255 /\ h \in 1..255) => Len(cells) = w * h

\* C8: with width and height in 1..255 no operation aborts.
C8_NoAbort ==
    (w \in 1..255 /\ h \in 1..255) => ~panicked /\ ret # Panic

\* C9: flag on a valid Covered cell returns true and makes it Flagged, on a
\* valid Flagged cell returns false and makes it Covered; no other cell
\* state, no mine flag and not overall_state changes.
C9_FlagToggles ==
    [][(call'[1] = "flag" /\ CallX < w /\ CallY < h
        /\ Pos(CallX, CallY) <= Len(cells)
        /\ cells[Pos(CallX, CallY)].state # "Uncovered")
       => LET p == Pos(CallX, CallY)
              flip == IF cells[p].state = "Covered" THEN "Flagged"
                      ELSE "Covered"
          IN /\ ret' = Some(cells[p].state = "Covered")
             /\ cells'[p].state = flip
             /\ Len(cells') = Len(cells)
             /\ \A i \in 1..Len(cells) :
                   /\ cells'[i].mine = cells[i].mine
                   /\ i # p => cells'[i].state = cells[i].state
             /\ state' = state
             /\ ~panicked']_vars

\* A flag was taken back after the game ended, next to an opened cell.
C9_Witness ==
    /\ call[1] = "flag"
    /\ ret = Some(FALSE)
    /\ state # "Continue"
    /\ \E i \in 1..Len(cells) : cells[i].state = "Uncovered"

\* C10: open and flag with x >= width or y >= height change no cell and
\* not overall_state, and flag returns None.
C10_OutOfRangeNoOp ==
    [][(call'[1] \in {"open", "flag"} /\ (CallX >= w \/ CallY >= h))
       => /\ cells' = cells
          /\ state' = state
          /\ ~panicked'
          /\ call'[1] = "flag" => ret' = None]_vars

\* An out-of-range flag on a board with opened and flagged cells.
C10_Witness ==
    /\ call[1] = "flag"
    /\ (call[2] >= w \/ call[3] >= h)
    /\ ret = None
    /\ \E i \in 1..Len(cells) : cells[i].state = "Uncovered"
    /\ \E i \in 1..Len(cells) : cells[i].state = "Flagged"

\* C11: flag on an Uncovered cell returns None and changes nothing: the cell
\* stays Uncovered, flagged() and overall_state keep their values.
C11_FlagUncoveredRejected ==
    [][(call'[1] = "flag" /\ CallX < w /\ CallY < h
        /\ Pos(CallX, CallY) <= Len(cells)
        /\ cells[Pos(CallX, CallY)].state = "Uncovered")
       => /\ ret' = None
          /\ cells' = cells
          /\ flagged' = flagged
          /\ state' = state
          /\ ~panicked']_vars

\* A flag was refused on an Uncovered cell while another cell is Flagged.
C11_Witness ==
    /\ call[1] = "flag"
    /\ call[2] < w /\ call[3] < h
    /\ Pos(call[2], call[3]) <= Len(cells)
    /\ cells[Pos(call[2], call[3])].state = "Uncovered"
    /\ ret = None
    /\ flagged >= 1

\* C12: flag on a valid Covered cell returns true and raises flagged() by
\* one; flag on the same cell again returns false, brings flagged() back and
\* gives back the board as it was before the first call.
C12_FlagRoundTrip ==
    [][\A x \in Coords(w), y \in Coords(h) :
          (/\ call' = <<"flag", x, y>>
           /\ x < w /\ y < h
           /\ Pos(x, y) <= Len(cells)
           /\ cells[Pos(x, y)].state = "Covered")
          => /\ ret' = Some(TRUE)
             /\ flagged' = flagged + 1
             /\ (flag(x, y).ret)' = Some(FALSE)
             /\ (flag(x, y).cells)' = cells
             /\ Cardinality({i \in 1..Len(cells) :
                    (flag(x, y).cells)'[i].state = "Flagged"}) = flagged]_vars

\* A second flag was set on a board with an opened cell.
C12_Witness ==
    /\ call[1] = "flag"
    /\ ret = Some(TRUE)
    /\ flagged >= 2
    /\ \E i \in 1..Len(cells) : cells[i].state = "Uncovered"

\* The coordinates of the 3x3 block centred at (x, y), without (x, y),
\* clipped to the grid.
Block(x, y) ==
    {p \in ((x - 1)..(x + 1)) \X ((y - 1)..(y + 1)) :
        /\ p # <<x, y>>
        /\ p[1] >= 0 /\ p[1] < w
        /\ p[2] >= 0 /\ p[2] < h}

\* The number of mines among the cells of Block(x, y).
BlockMines(x, y) ==
    Cardinality({p \in Block(x, y) :
        Pos(p[1], p[2]) <= Len(cells) /\ cells[Pos(p[1], p[2])].mine})

\* C13: for every valid (x, y), adjacent_mines(x, y) is the number of mines
\* in the clipped 3x3 block around (x, y), between 0 and the number of
\* neighbours.
C13_AdjacentMinesIsBlockCount ==
    (call[1] = "adjacent_mines" /\ call[2] < w /\ call[3] < h)
    => /\ ret[1] = "Some"
       /\ ret = Some(BlockMines(call[2], call[3]))
       /\ ret[2] >= 0 /\ ret[2] <= Cardinality(Block(call[2], call[3]))

\* Cell (x, y) lies on a vertical border, on a horizontal border.
OnVBorder(x) == x = 0 \/ x = w - 1
OnHBorder(y) == y = 0 \/ y = h - 1

\* 3 for a corner cell, 5 for an edge cell, 8 for an interior cell.
NeighbourCount(x, y) ==
    IF OnVBorder(x) /\ OnHBorder(y) THEN 3
    ELSE IF OnVBorder(x) \/ OnHBorder(y) THEN 5
    ELSE 8

\* The list adj returned holds exactly the clipped 3x3 block, once each.
AdjIsBlock ==
    LET a == ret[2] IN
    /\ {a[i] : i \in 1..Len(a)} = Block(call[2], call[3])
    /\ \A i, j \in 1..Len(a) : i # j => a[i] # a[j]

\* C14 as stated: adj(x, y) is the clipped 3x3 block without duplicates and
\* without (x, y), and it has 3, 5 or 8 entries for a corner, edge or
\* interior cell of any board.
C14_AdjCountsOnEveryBoard ==
    (call[1] = "adj" /\ ret[1] = "Val")
    => /\ AdjIsBlock
       /\ Len(ret[2]) = NeighbourCount(call[2], call[3])

\* C14 amended: adj(x, y) is the clipped 3x3 block without duplicates and
\* without (x, y) on every board; it has 3, 5 or 8 entries for a corner,
\* edge or interior cell when width and height are at least 2.
C14_AdjIsClippedBlock ==
    call[1] = "adj"
    => /\ ret[1] = "Val"
       /\ AdjIsBlock
       /\ (w >= 2 /\ h >= 2)
          => Len(ret[2]) = NeighbourCount(call[2], call[3])

\* adj was called on the interior cell of a 3 by 3 board.
C14_Witness ==
    /\ call = <<"adj", 1, 1>>
    /\ w = 3 /\ h = 3
    /\ Len(ret[2]) = 8

\* C15: on a board without mines, an open of any valid cell leaves every
\* cell Uncovered, whatever cells were Covered or Flagged before.
C15_OpenUncoversMinelessBoard ==
    [][(call'[1] = "open" /\ CallX < w /\ CallY < h /\ mines = 0)
       => /\ ~panicked'
          /\ \A i \in 1..Len(cells') : cells'[i].state = "Uncovered"]_vars

\* C16: an open of a valid cell that is not a mine and has an adjacent mine
\* makes that cell Uncovered and changes the state of no other cell.
C16_NumberedCellStopsCascade ==
    [][(/\ call'[1] = "open"
        /\ CallX < w /\ CallY < h
        /\ has_mine(CallX, CallY) = Some(FALSE)
        /\ BlockMines(CallX, CallY) >= 1)
       => /\ ~panicked'
          /\ cells' = [cells EXCEPT ![Pos(CallX, CallY)].state = "Uncovered"]]_vars

\* C17: an open of a valid cell that is a mine sets overall_state to Lost
\* and changes no cell: the cell hit stays Covered or Flagged and nothing
\* is revealed.
C17_MineHitChangesNoCell ==
    [][(/\ call'[1] = "open"
        /\ CallX < w /\ CallY < h
        /\ has_mine(CallX, CallY) = Some(TRUE))
       => /\ state' = "Lost"
          /\ cells' = cells
          /\ ~panicked']_vars

\* A flagged mine was opened on a board with an opened cell: the game is
\* Lost and the mine is still Flagged.
C17_Witness ==
    /\ call[1] = "open"
    /\ state = "Lost"
    /\ call[2] < w /\ call[3] < h
    /\ Pos(call[2], call[3]) <= Len(cells)
    /\ cells[Pos(call[2], call[3])].mine
    /\ cells[Pos(call[2], call[3])].state = "Flagged"
    /\ \E i \in 1..Len(cells) : cells[i].state = "Uncovered"

\* C18: right after new(width, height) overall_state is Continue, every
\* valid cell is Covered, flagged() is 0, and width() and height() are the
\* constructor arguments.
C18_FreshBoard ==
    call[1] = "new"
    => /\ ~panicked
       /\ state = "Continue"
       /\ \A x \in Coords(w), y \in Coords(h) :
             (x < w /\ y < h) => cell_state(x, y) = Some("Covered")
       /\ flagged = 0
       /\ width = call[2] /\ height = call[3]

\* C19: open and flag change no mine flag, not the number of cells, not
\* mines(), not width() and not height().
C19_MinesAndSizeFixed ==
    [][/\ Len(cells') = Len(cells)
       /\ \A i \in 1..Len(cells) : cells'[i].mine = cells[i].mine
       /\ mines' = mines
       /\ width' = width /\ height' = height]_vars

\* A mine has been flagged on a board with an opened cell, and the game is
\* over.
C19_Witness ==
    /\ call[1] = "flag"
    /\ mines >= 1
    /\ \E i \in 1..Len(cells) : cells[i].mine /\ cells[i].state = "Flagged"
    /\ \E i \in 1..Len(cells) : cells[i].state = "Uncovered"
    /\ state # "Continue"

\* C20: a board with width 0 or height 0 has no cells and no mines, every
\* per-coordinate call returns None, and overall_state stays Continue.
C20_EmptyBoardInert ==
    (w = 0 \/ h = 0)
    => /\ ~panicked
       /\ Len(cells) = 0
       /\ mines = 0
       /\ state = "Continue"
       /\ call[1] \in {"cell_state", "has_mine", "adjacent_mines", "flag"}
          => ret = None

\* An open was made on a board of width 0 and height 3.
C20_Witness ==
    /\ w = 0 /\ h = MaxSide
    /\ call[1] = "open"
    /\ call[3] < h
    /\ state = "Continue"

\* The zero-count cells of a coordinate set S, and the reference closure of
\* cell o: the least set that holds o and, with every cell of it that has no
\* adjacent mine, the neighbours of that cell.
ZeroCells(S) == {p \in S : BlockMines(p[1], p[2]) = 0}

RECURSIVE Closure(_)
Closure(S) ==
    LET T == S \cup UNION {Block(p[1], p[2]) : p \in ZeroCells(S)}
    IN IF T = S THEN S ELSE Closure(T)

RefClosure(x, y) == {Pos(p[1], p[2]) : p \in Closure({<<x, y>>})}

\* C21: an open of a valid cell that is not a mine uncovers exactly the
\* cells of the reference closure of that cell: afterwards the Uncovered
\* cells are those Uncovered before and those of the closure, and every
\* other cell keeps its state.
C21_OpenUncoversClosure ==
    [][(/\ call'[1] = "open"
        /\ CallX < w /\ CallY < h
        /\ has_mine(CallX, CallY) = Some(FALSE))
       => /\ ~panicked'
          /\ Len(cells') = Len(cells)
          /\ \A i \in 1..Len(cells) :
                cells'[i].state =
                    IF i \in RefClosure(CallX, CallY) THEN "Uncovered"
                    ELSE cells[i].state]_vars

\* The step is an open of a valid cell that is not a mine.
OpenSafeStep ==
    /\ call'[1] = "open"
    /\ CallX < w /\ CallY < h
    /\ has_mine(CallX, CallY) = Some(FALSE)

\* No cell is Covered and not a mine.
NoCoveredSafeCell(cs) ==
    \A i \in 1..Len(cs) : ~(cs[i].state = "Covered" /\ ~cs[i].mine)

\* C22: overall_state becomes Won only in an open of a valid cell that is
\* not a mine, and after every such open it is Won if and only if it was
\* Won before or the board then has no cell that is Covered and not a mine.
C22_WinCheck ==
    [][/\ (state' = "Won" /\ state # "Won") => OpenSafeStep
       /\ OpenSafeStep
          => ((state' = "Won") <=>
                 (state = "Won" \/ NoCoveredSafeCell(cells')))]_vars

\* C23: an open of a valid cell that is not a mine uncovers that cell also
\* when it is Flagged, and uncovers every Flagged cell of its reference
\* closure; flagged() drops by the number of Flagged cells uncovered.
C23_FlagNeverBlocksReveal ==
    [][OpenSafeStep
       => /\ cells[At(CallX, CallY)].state = "Flagged"
             => (~panicked' /\ cells'[At(CallX, CallY)].state = "Uncovered")
          /\ ~panicked'
             => /\ \A i \in RefClosure(CallX, CallY) \cap (1..Len(cells)) :
                      cells[i].state = "Flagged"
                      => cells'[i].state = "Uncovered"
                /\ flagged' = flagged - Cardinality({i \in 1..Len(cells) :
                                  /\ cells[i].state = "Flagged"
                                  /\ cells'[i].state = "Uncovered"})]_vars

\* C24: a cell that is Uncovered stays Uncovered in every later open and
\* flag call, and a cell becomes Flagged only in a flag call made on it
\* while it is Covered.
C24_UncoveredAbsorbing ==
    [][/\ Len(cells') = Len(cells)
       /\ \A i \in 1..Len(cells) :
             /\ cells[i].state = "Uncovered" => cells'[i].state = "Uncovered"
             /\ (cells'[i].state = "Flagged" /\ cells[i].state # "Flagged")
                => /\ call'[1] = "flag"
                   /\ cells[i].state = "Covered"]_vars

\* An Uncovered cell was opened again while another cell is Flagged.
C24_Witness ==
    /\ call[1] = "open"
    /\ call[2] < w /\ call[3] < h
    /\ Pos(call[2], call[3]) <= Len(cells)
    /\ cells[Pos(call[2], call[3])].state = "Uncovered"
    /\ state = "Continue"
    /\ flagged >= 1
    /\ \E i \in 1..Len(cells) : cells[i].state = "Covered"

\* The number of visited markers set in a marker sequence.
Marked(visited) == Cardinality({i \in 1..Len(visited) : visited[i]})

\* C25: in every reachable state every open call comes to an end, and its
\* traversal processes no cell twice: the number of cells it processes is
\* the number of visited markers it sets, at most the number of cells, and
\* the markers it starts from are all false.
C25_OpenVisitsEachCellOnce ==
    /\ Marked(fresh_visited(Len(cells))) = 0
    /\ \A x \in Coords(w), y \in Coords(h) :
          LET r == open(x, y) IN
          /\ r.steps = Marked(r.visited)
          /\ r.steps <= Len(cells)
          /\ r.panic \in BOOLEAN

\* An open of (0, 0) has cascaded over a 2 by 2 board without mines: the
\* traversal came back to cells it had already marked.
C25_Witness ==
    /\ call = <<"open", 0, 0>>
    /\ w = 2 /\ h = 2
    /\ Len(cells) = 4
    /\ \A i \in 1..4 : cells[i].state = "Uncovered"

\* C26: in the application every right click on a tile gets Some(true) or
\* Some(false) from flag: the None arm of handle_mouse_action, which is
\* unreachable!(), is never taken.
C26_RightClickNeverNone ==
    (app # NoApp /\ call[1] = "flag")
    => /\ ret \in {Some(TRUE), Some(FALSE)}
       /\ ~panicked

\* C27: in every state reached by open and flag calls flagged() is at most
\* mines(), so that mines() - flagged() in update_mines does not underflow.
C27_FlaggedAtMostMines ==
    /\ flagged <= mines
    /\ update_mines = Val(mines - flagged)

\* C28: whenever the application is in Over the board is Won or Lost, so
\* game_over never reaches its unreachable!() arm; and Over is entered only
\* from Playing, by handle_mouse_action.
C28_OverMeansWonOrLost ==
    [][/\ app' = "Over"
          => /\ state' \in {"Won", "Lost"}
             /\ game_over(state') = Unit
       /\ (app' = "Over" /\ app # "Over")
          => /\ app = "Playing"
             /\ call'[1] \in {"open", "flag", "hover"}
             /\ ~panicked']_vars

\* The application has entered Over on a board that was won by opening the
\* last safe cell while another tile was flagged.
C28_Witness ==
    /\ app = "Over"
    /\ state = "Won"
    /\ call[1] = "open"
    /\ flagged >= 1

\* A board as Game::new leaves it: every cell Covered, in state Continue.
FreshCells(cs) == \A i \in 1..Len(cs) : cs[i].state = "Covered"

\* C29: while the application is in Over no cell and not overall_state
\* changes; open and flag are called in Playing only; and outside Playing
\* the board changes only by a newly constructed one being installed, from
\* Restart or from Menu.
C29_BoardFrozenInOver ==
    [][/\ app = "Over"
          => /\ cells' = cells /\ state' = state
             /\ w' = w /\ h' = h
             /\ app' \in {"Over", "Restart", "Menu"}
       /\ call'[1] \in {"open", "flag"} => app = "Playing"
       /\ (app # "Playing" /\ (cells' # cells \/ state' # state))
          => /\ app \in {"Restart", "Menu"}
             /\ call'[1] = "new"
             /\ FreshCells(cells')
             /\ state' = "Continue"]_vars

\* A restart was asked for after a lost game: the finished board, with the
\* cells it had uncovered, is still the current one.
C29_Witness ==
    /\ app = "Restart"
    /\ state = "Lost"
    /\ call[1] = "handle_restart"
    /\ \E i \in 1..Len(cells) : cells[i].state = "Uncovered"

CoordOf(i) == <<(i - 1) % w, (i - 1) \div w>>

\* The cell at position i is Uncovered and has no adjacent mine.
OpenedZeroCell(i) ==
    /\ cells[i].state = "Uncovered"
    /\ BlockMines(CoordOf(i)[1], CoordOf(i)[2]) = 0

\* C31: in every state reached from a fresh board by open and flag calls,
\* every neighbour of an Uncovered cell without adjacent mines is Uncovered.
C31_ClosureInvariant ==
    \A i \in 1..Len(cells) :
       OpenedZeroCell(i)
       => \A p \in Block(CoordOf(i)[1], CoordOf(i)[2]) :
             /\ Pos(p[1], p[2]) <= Len(cells)
             /\ cells[Pos(p[1], p[2])].state = "Uncovered"

\* On a board with a mine, an open has uncovered a cell without adjacent
\* mines that has a neighbour, after a flag had been set and while a cell is
\* still Flagged.
C31_Witness ==
    /\ call[1] = "open"
    /\ mines >= 1
    /\ flagged >= 1
    /\ \E i \in 1..Len(cells) :
          /\ OpenedZeroCell(i)
          /\ Block(CoordOf(i)[1], CoordOf(i)[2]) # {}

\* open(b) on the board left by a call of open with result r; a call that
\* panics ends the sequence.
ThenOpen(r, b) ==
    IF r.panic THEN r ELSE open_in(r.cells, r.state, b[1], b[2])

\* open(a) followed by open(b) on the current board.
OpenTwice(a, b) == ThenOpen(open(a[1], a[2]), b)

\* The valid cells of the current board that are not mines, among the
\* coordinates the callers pass.
SafeCoords ==
    {p \in Coords(w) \X Coords(h) :
        p[1] < w /\ p[2] < h /\ has_mine(p[1], p[2]) = Some(FALSE)}

\* C32: in every reachable state, for any two valid cells a and b that are
\* not mines, open(a) then open(b) gives the same cell states and the same
\* overall_state as open(b) then open(a). The statement is symmetric in a
\* and b, so each pair of distinct cells is taken once.
C32_SafeOpensCommute ==
    \A a \in SafeCoords :
       LET ra == open(a[1], a[2])
       IN \A b \in SafeCoords :
             Pos(a[1], a[2]) < Pos(b[1], b[2])
             => LET ab == ThenOpen(ra, b)
                    ba == OpenTwice(b, a)
                IN /\ ab.cells = ba.cells
                   /\ ab.state = ba.state
                   /\ ab.panic = ba.panic

\* After an open and with a cell Flagged, two safe cells are left of which
\* a borders no mine and b borders one, and opening a after b uncovers
\* further cells.
C32_Witness ==
    /\ call[1] = "open"
    /\ flagged >= 1
    /\ \E a, b \in SafeCoords :
          /\ cells[Pos(a[1], a[2])].state # "Uncovered"
          /\ cells[Pos(b[1], b[2])].state # "Uncovered"
          /\ BlockMines(a[1], a[2]) = 0
          /\ BlockMines(b[1], b[2]) >= 1
          /\ ~OpenTwice(b, a).panic
          /\ OpenTwice(b, a).cells # open(b[1], b[2]).cells

\* C33: open and flag do not consult overall_state. Whenever open or flag
\* is called on a board, the same call on a board with the same cells and
\* any other overall state (Continue, Won or Lost) leaves the same cell
\* states, panics alike and, for flag, returns the same value.
C33_StateNotConsulted ==
    [][\A st \in GameState \ {state} :
          /\ call'[1] = "open"
             => LET r == open_in(cells, st, call'[2], call'[3])
                IN /\ r.cells = cells'
                   /\ r.panic = panicked'
          /\ call'[1] = "flag"
             => LET f == flag_in(cells, st, call'[2], call'[3])
                IN /\ f.cells = cells'
                   /\ f.ret = ret']_vars

\* The game is Lost and the last call was a flag that flagged a cell (flag
\* leaves the state alone, so the game was Lost before it), and an open
\* would still uncover a cell.
C33_Witness ==
    /\ state = "Lost"
    /\ call[1] = "flag"
    /\ ret = Some(TRUE)
    /\ \E x \in Coords(w), y \in Coords(h) :
          /\ ~open(x, y).panic
          /\ open(x, y).cells # cells

====
